---- MODULE Spec2Model ----
(***************************************************************************)
(* Model of go-stackoverflow-questions (src/main.go): GetTop5Questions     *)
(* drives RLHTTPClient.Do, which waits on the rate limiter, fetches one    *)
(* page of the search API, keeps the unanswered items, merges them into    *)
(* the retained top-5 slice and calls itself for the next page while the   *)
(* page reports has_more.                                                  *)
(*                                                                         *)
(* An item is the pair of fields the program reads, IsAnswered and         *)
(* ViewCount; creation_date, question_id and link are carried through      *)
(* untouched and are left out.                                             *)
(***************************************************************************)
EXTENDS Integers, Sequences, FiniteSets, TLC

\* ---- constants of the program ----
K == 5              \* len(items) > 5, items[:5]
Burst == 30         \* rate.NewLimiter(rate.Every(1*time.Second), 30)
FirstPage == 1      \* page := 1

\* ---- bounds of the model ----
MaxVC == 2          \* unanswered items carry a view count in 1..MaxVC
MaxPages == 2       \* the API reports has_more = false on this page at the latest

\* A page carries at most one item more than the retained slice holds: the
\* shortest page whose unanswered items alone overflow an empty slice.
MaxPageLen == K + 1

VARIABLES
    pc,        \* control point of the run
    page,      \* the page argument of the active Do call
    top5,      \* *top5, the retained slice
    tokens,    \* tokens held by c.Ratelimiter
    resp,      \* outcome of the last c.client.Do(req)
    err,       \* the error Do returns ("nil" while none)
    ret,       \* what GetTop5Questions returned
    acquires,  \* history: successful Ratelimiter.Wait calls
    fetches,   \* history: c.client.Do calls
    decodes,   \* history: bodies decoded into a QuestionResponse
    hasMoreLog,\* history: has_more of every decoded page, in order
    best,      \* history: the K largest view counts among all unanswered items decoded so far
    want,      \* history: the K largest view counts among the candidates of the last merge
    depth,     \* activations of Do on the call stack
    params,    \* the params map GetTop5Questions builds and request writes to
    unanswered,\* history: unanswered items decoded so far, counted up to K + 1
    sinceTick, \* history: successful Waits since the limiter last gained a token
    lastPage,  \* the page on which the API's listing ends at the latest
    other,     \* the variables of a second run on the same limiter while the first one is running
    gained     \* history: tokens the limiter has added to the bucket

vars == <<pc, page, top5, tokens, resp, err, ret, acquires, fetches, decodes, hasMoreLog, best, want,
          depth, params, unanswered, sinceTick, lastPage, other, gained>>

\* ---- items and pages ----
Item(a, v) == [IsAnswered |-> a, ViewCount |-> v]

\* Unanswered questions take every view count of the range; answered ones carry
\* the largest view count of all, so that an answered item that reached the
\* merge would rank first.
ItemPool == {Item(FALSE, v) : v \in 1..MaxVC} \cup {Item(TRUE, MaxVC + 1)}

SeqsUpTo(S, n) == UNION {[1..m -> S] : m \in 0..n}

\* The outcome of c.client.Do(req) and of reading its body. Of a decoded page
\* the run keeps what it reads afterwards (HasMore); Fetched and Answered count
\* the page's items and those of them with is_answered = true.
Outcome(k, s, its, h) ==
    [kind |-> k, status |-> s, HasMore |-> h, Fetched |-> Len(its),
     Answered |-> Len(SelectSeq(its, LAMBDA it : it.IsAnswered))]

NoResp == Outcome("none", 0, <<>>, FALSE)

StatusOK == 200
StatusBadRequest == 400

\* the has_more flags the API can report on page p: the listing ends on page
\* lastPage at the latest
HasMoreOf(p) == IF p < lastPage THEN BOOLEAN ELSE {FALSE}

\* Bodies of a 200 response: any page of at most MaxPageLen items.
Pages == SeqsUpTo(ItemPool, MaxPageLen)

\* Bodies of a non-2xx response that decode: the API's error object, which has
\* no items member, or a page of one item.
ErrorPages == SeqsUpTo(ItemPool, 1)

\* ---- request ----
Digit == <<"0", "1", "2", "3", "4", "5", "6", "7", "8", "9">>

\* strconv.Itoa for n >= 0: the decimal digits of n
RECURSIVE Itoa(_)
Itoa(n) == IF n < 10 THEN Digit[n + 1] ELSE Itoa(n \div 10) \o Digit[(n % 10) + 1]

\* the arguments main passes: GetTop5Questions("git", "go")
InTitle == "git"
Tagged == "go"

\* params := make(map[string]string) and the assignments that follow it. The
\* two dates are the formatted clock readings; their digits play no part.
NewParams(inTitle, tagged) ==
    LET keys == {"intitle", "pagesize", "fromdate", "todate"}
                  \cup (IF tagged /= "" THEN {"tagged"} ELSE {})
    IN  [k \in keys |->
           IF k = "intitle" THEN inTitle
           ELSE IF k = "tagged" THEN tagged
           ELSE IF k = "pagesize" THEN Itoa(100)
           ELSE IF k = "fromdate" THEN "now-365d"
           ELSE "now"]

\* mutant: the page is written under the key of the page size
SetPageSize(ps, p) ==
    [k \in DOMAIN ps |-> IF k = "pagesize" THEN Itoa(p) ELSE ps[k]]

\* params["page"] = strconv.Itoa(page): written into the caller's map
SetPage(ps, p) ==
    [k \in DOMAIN ps \cup {"page"} |-> IF k = "page" THEN Itoa(p) ELSE ps[k]]

\* the query of the url constant
BaseQuery == [order |-> <<"desc">>, sort |-> <<"activity">>, site |-> <<"stackoverflow">>]

\* q := req.URL.Query(); for k, v := range params { q.Add(k, v) }: every key
\* maps to the list of its values
Query(ps) ==
    [k \in DOMAIN BaseQuery \cup DOMAIN ps |->
        (IF k \in DOMAIN BaseQuery THEN BaseQuery[k] ELSE <<>>)
        \o (IF k \in DOMAIN ps THEN <<ps[k]>> ELSE <<>>)]

\* ---- pure helpers of Do ----
\* mutant: the filter keeps every item
KeepAll(item) == TRUE

\* if !item.IsAnswered
Keep(item) == ~item.IsAnswered

\* for _, item := range qr.Items { if !item.IsAnswered { items = append(items, item) } }
Filter(s) == SelectSeq(s, Keep)

\* mutant: the comparison is reversed
LessAscending(a, b) == a.ViewCount < b.ViewCount

\* the less function handed to sort.Slice
Less(a, b) == a.ViewCount > b.ViewCount

\* sort.Slice(items, less): the result is ordered by less. sort.Slice is not
\* stable; items that compare equal are equal records here, so every order the
\* library may pick for them is the same sequence.
SortSlice(s) == SortSeq(s, Less)

\* mutant: the retained slice is not appended to the page's items
CandidatesOfPage(kept, cur) == SortSlice(kept)

\* items = append(items, *top5...); sort.Slice(items, ...)
Candidates(kept, cur) == SortSlice(kept \o cur)

\* mutant: the first K candidates are retained, or all of them when fewer
RetainUpToK(cur, items) == SubSeq(items, 1, IF Len(items) < K THEN Len(items) ELSE K)

\* mutant: the slice bound is off by one
RetainOneMore(cur, items) == IF Len(items) > K THEN SubSeq(items, 1, K + 1) ELSE cur

\* if len(items) > 5 { *top5 = items[:5] }
Retain(cur, items) == IF Len(items) > K THEN SubSeq(items, 1, K) ELSE cur

\* the whole of lines 84-100
Merge(cur, pageItems) == Retain(cur, Candidates(Filter(pageItems), cur))

\* mutant: the continuation test is negated
MoreNegated(qr) == ~qr.HasMore

\* if qr.HasMore
More(qr) == qr.HasMore

\* json.Marshal(top5): is_answered carries omitempty
MarshalItem(it) ==
    [view_count |-> it.ViewCount,
     is_answered |-> IF it.IsAnswered THEN "true" ELSE "omitted"]

Marshal(s) == [i \in 1..Len(s) |-> MarshalItem(s[i])]

NotReturned == [returned |-> FALSE, isNil |-> TRUE, json |-> <<>>, err |-> "nil"]

\* ---- reference for the history variable best ----
\* the view counts of the items of a page with is_answered = false
UnansweredViews(its) ==
    LET u == SelectSeq(its, LAMBDA it : it.IsAnswered = FALSE)
    IN  [i \in 1..Len(u) |-> u[i].ViewCount]

\* the K largest of the view counts old and those of the page's unanswered
\* items, largest first (all of them when there are fewer than K)
BestAfter(old, its) ==
    LET all == SortSeq(old \o UnansweredViews(its), LAMBDA a, b : a > b)
    IN  SubSeq(all, 1, IF Len(all) < K THEN Len(all) ELSE K)

Views(s) == [i \in 1..Len(s) |-> s[i].ViewCount]

\* n unanswered items and m more, counted up to K + 1
CountAfter(n, m) == IF n + m > K THEN K + 1 ELSE n + m

\* ---- the run ----
\* no second run
NoRun == [pc |-> "none"]

\* the variables when GetTop5Questions calls Do (lines 125-140)
NewRun ==
    [pc |-> "Wait", page |-> FirstPage, top5 |-> <<>>, resp |-> NoResp, err |-> "nil",
     ret |-> NotReturned, acquires |-> 0, fetches |-> 0, decodes |-> 0, hasMoreLog |-> <<>>,
     best |-> <<>>, want |-> <<>>, depth |-> 1, params |-> NewParams(InTitle, Tagged),
     unanswered |-> 0]

Init ==
    /\ pc = "Wait"
    /\ page = FirstPage
    /\ top5 = <<>>
    /\ tokens = Burst
    /\ resp = NoResp
    /\ err = "nil"
    /\ ret = NotReturned
    /\ acquires = 0
    /\ fetches = 0
    /\ decodes = 0
    /\ hasMoreLog = <<>>
    /\ best = <<>>
    /\ want = <<>>
    /\ depth = 1
    /\ params = NewParams(InTitle, Tagged)
    /\ unanswered = 0
    /\ sinceTick = 0
    /\ lastPage = MaxPages
    /\ other = NoRun
    /\ gained = 0

\* Two runs on one limiter and listings that end on page SharedLastPage at the
\* latest: together they can ask for more tokens than the bucket holds.
SharedLastPage == (Burst \div 2) + 1

InitShared ==
    /\ pc = NewRun.pc
    /\ page = NewRun.page
    /\ top5 = NewRun.top5
    /\ tokens = Burst
    /\ resp = NewRun.resp
    /\ err = NewRun.err
    /\ ret = NewRun.ret
    /\ acquires = NewRun.acquires
    /\ fetches = NewRun.fetches
    /\ decodes = NewRun.decodes
    /\ hasMoreLog = NewRun.hasMoreLog
    /\ best = NewRun.best
    /\ want = NewRun.want
    /\ depth = NewRun.depth
    /\ params = NewRun.params
    /\ unanswered = NewRun.unanswered
    /\ sinceTick = 0
    /\ lastPage = SharedLastPage
    /\ other = NewRun
    /\ gained = 0

\* A listing of one page more than the bucket holds: the run that fetches all
\* of it needs a token the limiter has to refill.
InitTimed ==
    /\ pc = "Wait"
    /\ page = FirstPage
    /\ top5 = <<>>
    /\ tokens = Burst
    /\ resp = NoResp
    /\ err = "nil"
    /\ ret = NotReturned
    /\ acquires = 0
    /\ fetches = 0
    /\ decodes = 0
    /\ hasMoreLog = <<>>
    /\ best = <<>>
    /\ want = <<>>
    /\ depth = 1
    /\ params = NewParams(InTitle, Tagged)
    /\ unanswered = 0
    /\ sinceTick = 0
    /\ lastPage = Burst + 1
    /\ other = NoRun
    /\ gained = 0

\* rate.Every(1*time.Second) with burst 30: a second adds one token, up to Burst
Refilled(n) == IF n < Burst THEN n + 1 ELSE n

\* A second has passed when Wait looks at the clock: the limiter brings its
\* token count up to date when it is asked for a token, not in between.
Refill ==
    /\ pc = "Wait"
    /\ tokens' = Refilled(tokens)
    /\ gained' = gained + (tokens' - tokens)
    /\ sinceTick' = 0
    /\ UNCHANGED <<pc, page, top5, resp, err, ret, acquires, fetches, decodes, hasMoreLog, best, want>>
    /\ UNCHANGED <<depth, params, unanswered, lastPage, other>>

\* The second a blocked Wait sleeps for: the bucket is empty and the running
\* run stands before Wait.
RefillWhileBlocked == tokens = 0 /\ Refill

\* mutant: Wait returns without a token being there
WaitOkNoBlock ==
    /\ pc = "Wait"
    /\ page <= lastPage
    /\ tokens' = tokens - 1
    /\ acquires' = acquires + 1
    /\ sinceTick' = sinceTick + 1
    /\ pc' = "Request"
    /\ UNCHANGED <<page, top5, resp, err, ret, fetches, decodes, hasMoreLog, best, want>>
    /\ UNCHANGED <<depth, params, unanswered, lastPage, other, gained>>

\* c.Ratelimiter.Wait(ctx) returns nil: blocks until a token is there, takes it.
\* The limiter is created full for every run and a run makes one Wait per page,
\* so a listing of at most Burst pages never finds the bucket empty.
WaitOk ==
    /\ pc = "Wait"
    /\ page <= lastPage
    /\ tokens >= 1
    /\ tokens' = tokens - 1
    /\ acquires' = acquires + 1
    /\ sinceTick' = sinceTick + 1
    /\ pc' = "Request"
    /\ UNCHANGED <<page, top5, resp, err, ret, fetches, decodes, hasMoreLog, best, want>>
    /\ UNCHANGED <<depth, params, unanswered, lastPage, other, gained>>

\* mutant: the failed Wait keeps the token it reserved
WaitErrTakesToken ==
    /\ pc = "Wait"
    /\ page <= lastPage
    /\ tokens >= 1
    /\ tokens' = tokens - 1
    /\ err' = "RateLimit"
    /\ pc' = "DoReturned"
    /\ UNCHANGED <<page, top5, resp, ret, acquires, fetches, decodes, hasMoreLog, best, want>>
    /\ UNCHANGED <<depth, params, unanswered, sinceTick, lastPage, other, gained>>

\* c.Ratelimiter.Wait(ctx) returns an error: Do returns it. Wait fails without
\* taking a token (it gives a reservation back when its context ends).
WaitErr ==
    /\ pc = "Wait"
    /\ page <= lastPage
    /\ err' = "RateLimit"
    /\ pc' = "DoReturned"
    /\ UNCHANGED <<page, top5, tokens, resp, ret, acquires, fetches, decodes, hasMoreLog, best, want>>
    /\ UNCHANGED <<depth, params, unanswered, sinceTick, lastPage, other, gained>>

\* req, err := request(url, params, page): writes the page into params; the
\* query of the request is Query(params) as params stands after this step.
\* http.NewRequest does not fail for the method and url constants, so the
\* error return is never taken.
Request ==
    /\ pc = "Request"
    /\ params' = SetPage(params, page)
    /\ pc' = "Fetch"
    /\ UNCHANGED <<page, top5, tokens, resp, err, ret, acquires, fetches, decodes, hasMoreLog, best, want>>
    /\ UNCHANGED <<depth, unanswered, sinceTick, lastPage, other, gained>>

\* Lines 65-100 of Do for one response: c.client.Do, gzip.NewReader,
\* Decode, filter, append, sort, truncate. k is what the network and the body
\* turn out to be: "neterr" (client.Do fails), "notgzip", "badjson" or "json".
Fetch(k, s, its, h) ==
    /\ pc = "Fetch"
    /\ fetches' = fetches + 1
    /\ resp' = Outcome(k, s, its, h)
    /\ IF k = "neterr"
       THEN /\ err' = "Transport"
            /\ pc' = "DoReturned"
            /\ UNCHANGED <<top5, decodes, hasMoreLog, best, want, unanswered>>
       ELSE IF k = "notgzip"
       THEN /\ err' = "Gzip"
            /\ pc' = "DoReturned"
            /\ UNCHANGED <<top5, decodes, hasMoreLog, best, want, unanswered>>
       ELSE IF k = "badjson"
       THEN /\ err' = "Decode"
            /\ pc' = "DoReturned"
            /\ UNCHANGED <<top5, decodes, hasMoreLog, best, want, unanswered>>
       ELSE /\ top5' = Merge(top5, its)
            /\ decodes' = decodes + 1
            /\ hasMoreLog' = Append(hasMoreLog, h)
            /\ best' = BestAfter(best, its)
            /\ want' = BestAfter(Views(top5), its)
            /\ unanswered' = CountAfter(unanswered, resp'.Fetched - resp'.Answered)
            /\ pc' = "HasMore"
            /\ err' = err
    /\ UNCHANGED <<page, tokens, ret, acquires, depth, params, sinceTick, lastPage, other, gained>>

\* the network fails, or the body of a response of either status is not gzip
\* or not the JSON schema
FetchFails ==
    /\ pc = "Fetch"
    /\ \/ Fetch("neterr", 0, <<>>, FALSE)
       \/ \E k \in {"notgzip", "badjson"}, s \in {StatusOK, StatusBadRequest} :
             Fetch(k, s, <<>>, FALSE)

\* a 200 response carrying a page
FetchPage ==
    /\ pc = "Fetch"
    /\ \E its \in Pages, h \in HasMoreOf(page) : Fetch("json", StatusOK, its, h)

\* a 200 response carrying a page without items
FetchEmptyPage ==
    /\ pc = "Fetch"
    /\ \E h \in HasMoreOf(page) : Fetch("json", StatusOK, <<>>, h)

\* a 200 response carrying a page of MaxPageLen unanswered items of one view count
FetchFullPage ==
    /\ pc = "Fetch"
    /\ \E v \in 1..MaxVC, h \in HasMoreOf(page) :
          Fetch("json", StatusOK, [i \in 1..MaxPageLen |-> Item(FALSE, v)], h)

\* a non-2xx response whose body decodes
FetchErrorStatus ==
    /\ pc = "Fetch"
    /\ \E its \in ErrorPages, h \in HasMoreOf(page) : Fetch("json", StatusBadRequest, its, h)

\* mutant: the next activation goes straight to building its request
RecurseSkipsWait ==
    /\ pc = "HasMore"
    /\ More(resp)
    /\ page' = page + 1
    /\ depth' = depth + 1
    /\ resp' = NoResp
    /\ want' = <<>>
    /\ pc' = "Request"
    /\ UNCHANGED <<top5, tokens, err, ret, acquires, fetches, decodes, hasMoreLog, best>>
    /\ UNCHANGED <<params, unanswered, sinceTick, lastPage, other, gained>>

\* mutant: the next activation is handed page + 2
RecurseSkipsPage ==
    /\ pc = "HasMore"
    /\ More(resp)
    /\ page' = page + 2
    /\ depth' = depth + 1
    /\ resp' = NoResp
    /\ want' = <<>>
    /\ pc' = "Wait"
    /\ UNCHANGED <<top5, tokens, err, ret, acquires, fetches, decodes, hasMoreLog, best>>
    /\ UNCHANGED <<params, unanswered, sinceTick, lastPage, other, gained>>

\* if qr.HasMore { return c.Do(top5, url, params, page+1) }
Recurse ==
    /\ pc = "HasMore"
    /\ More(resp)
    /\ page' = page + 1
    /\ depth' = depth + 1
    /\ resp' = NoResp
    /\ want' = <<>>
    /\ pc' = "Wait"
    /\ UNCHANGED <<top5, tokens, err, ret, acquires, fetches, decodes, hasMoreLog, best>>
    /\ UNCHANGED <<params, unanswered, sinceTick, lastPage, other, gained>>

\* return nil
ReturnNil ==
    /\ pc = "HasMore"
    /\ ~More(resp)
    /\ pc' = "DoReturned"
    /\ UNCHANGED <<page, top5, tokens, resp, err, ret, acquires, fetches, decodes, hasMoreLog, best, want>>
    /\ UNCHANGED <<depth, params, unanswered, sinceTick, lastPage, other, gained>>

\* return c.Do(top5, url, params, page+1): an activation that called itself
\* hands its callee's result to its own caller
Unwind ==
    /\ pc = "DoReturned"
    /\ depth > 1
    /\ depth' = depth - 1
    /\ UNCHANGED <<pc, page, top5, tokens, resp, err, ret, acquires, fetches, decodes, hasMoreLog, best, want>>
    /\ UNCHANGED <<params, unanswered, sinceTick, lastPage, other, gained>>

\* mutant: GetTop5Questions does not return when Do reports an error
GetTop5QuestionsHangsOnError ==
    /\ pc = "DoReturned"
    /\ depth = 1
    /\ depth' = 0
    /\ IF err /= "nil"
       THEN /\ ret' = ret
            /\ pc' = pc
       ELSE /\ ret' = [returned |-> TRUE, isNil |-> FALSE, json |-> Marshal(top5), err |-> "nil"]
            /\ pc' = "Done"
    /\ UNCHANGED <<page, top5, tokens, resp, err, acquires, fetches, decodes, hasMoreLog, best, want>>
    /\ UNCHANGED <<params, unanswered, sinceTick, lastPage, other, gained>>

\* mutant: the two runs write to one retained slice
SwitchSharesTop5 ==
    /\ other.pc /= "none"
    /\ pc \in {"Wait", "Done", "Failed"}
    /\ other' = [pc |-> pc, page |-> page, top5 |-> top5, resp |-> resp, err |-> err,
                 ret |-> ret, acquires |-> acquires, fetches |-> fetches, decodes |-> decodes,
                 hasMoreLog |-> hasMoreLog, best |-> best, want |-> want, depth |-> depth,
                 params |-> params, unanswered |-> unanswered]
    /\ pc' = other.pc
    /\ page' = other.page
    /\ top5' = top5
    /\ resp' = other.resp
    /\ err' = other.err
    /\ ret' = other.ret
    /\ acquires' = other.acquires
    /\ fetches' = other.fetches
    /\ decodes' = other.decodes
    /\ hasMoreLog' = other.hasMoreLog
    /\ best' = other.best
    /\ want' = other.want
    /\ depth' = other.depth
    /\ params' = other.params
    /\ unanswered' = other.unanswered
    /\ UNCHANGED <<tokens, sinceTick, lastPage, gained>>

\* The scheduler takes the running goroutine off and puts the other run on.
\* The runs meet at the limiter only and every other step of a run touches
\* its own variables, so a switch anywhere else is the same as one at the
\* next Wait: runs are switched when the running one stands before Wait or
\* has returned.
Switch ==
    /\ other.pc /= "none"
    /\ pc \in {"Wait", "Done", "Failed"}
    /\ other' = [pc |-> pc, page |-> page, top5 |-> top5, resp |-> resp, err |-> err,
                 ret |-> ret, acquires |-> acquires, fetches |-> fetches, decodes |-> decodes,
                 hasMoreLog |-> hasMoreLog, best |-> best, want |-> want, depth |-> depth,
                 params |-> params, unanswered |-> unanswered]
    /\ pc' = other.pc
    /\ page' = other.page
    /\ top5' = other.top5
    /\ resp' = other.resp
    /\ err' = other.err
    /\ ret' = other.ret
    /\ acquires' = other.acquires
    /\ fetches' = other.fetches
    /\ decodes' = other.decodes
    /\ hasMoreLog' = other.hasMoreLog
    /\ best' = other.best
    /\ want' = other.want
    /\ depth' = other.depth
    /\ params' = other.params
    /\ unanswered' = other.unanswered
    /\ UNCHANGED <<tokens, sinceTick, lastPage, gained>>

\* mutant: the slice accumulated so far is marshalled even when Do failed
GetTop5QuestionsReturnPartial ==
    /\ pc = "DoReturned"
    /\ depth = 1
    /\ depth' = 0
    /\ ret' = [returned |-> TRUE, isNil |-> FALSE, json |-> Marshal(top5), err |-> err]
    /\ pc' = IF err /= "nil" THEN "Failed" ELSE "Done"
    /\ UNCHANGED <<page, top5, tokens, resp, err, acquires, fetches, decodes, hasMoreLog, best, want>>
    /\ UNCHANGED <<params, unanswered, sinceTick, lastPage, other, gained>>

\* if err := c.Do(...); err != nil { return nil, err }; return json.Marshal(top5)
GetTop5QuestionsReturn ==
    /\ pc = "DoReturned"
    /\ depth = 1
    /\ depth' = 0
    /\ IF err /= "nil"
       THEN /\ ret' = [returned |-> TRUE, isNil |-> TRUE, json |-> <<>>, err |-> err]
            /\ pc' = "Failed"
       ELSE /\ ret' = [returned |-> TRUE, isNil |-> FALSE, json |-> Marshal(top5), err |-> "nil"]
            /\ pc' = "Done"
    /\ UNCHANGED <<page, top5, tokens, resp, err, acquires, fetches, decodes, hasMoreLog, best, want>>
    /\ UNCHANGED <<params, unanswered, sinceTick, lastPage, other, gained>>

Next ==
    \/ WaitOk
    \/ WaitErr
    \/ Request
    \/ FetchFails
    \/ FetchPage
    \/ FetchErrorStatus
    \/ Recurse
    \/ ReturnNil
    \/ Unwind
    \/ GetTop5QuestionsReturn

Spec == Init /\ [][Next]_vars

\* The run on a listing longer than the bucket, with time passing.
NextTimed ==
    \/ Refill
    \/ WaitOk
    \/ WaitErr
    \/ Request
    \/ FetchFails
    \/ FetchEmptyPage
    \/ Recurse
    \/ ReturnNil
    \/ Unwind
    \/ GetTop5QuestionsReturn

SpecTimed == InitTimed /\ [][NextTimed]_vars

\* every step of the run but the failing Wait
RunStep ==
    \/ WaitOk
    \/ Request
    \/ FetchFails
    \/ FetchEmptyPage
    \/ Recurse
    \/ ReturnNil
    \/ Unwind
    \/ GetTop5QuestionsReturn

\* Time keeps passing and the run is scheduled: a goroutine that can take a
\* step takes one, and a blocked Wait returns once a token is there.
SpecTimedFair == SpecTimed /\ WF_vars(Refill) /\ WF_vars(RunStep)

\* Two runs on one limiter. Time passes once the bucket is drained and a run
\* is blocked in Wait: a second that passes earlier adds a token no later
\* than that and leaves the runs less to compete for.
NextShared ==
    \/ Switch
    \/ RefillWhileBlocked
    \/ WaitOk
    \/ Request
    \/ FetchEmptyPage
    \/ FetchFullPage
    \/ Recurse
    \/ ReturnNil
    \/ Unwind
    \/ GetTop5QuestionsReturn

SpecShared == InitShared /\ [][NextShared]_vars

\* ---- properties ----
Returned == ret.returned /\ ret.err = "nil"

JsonViews == [i \in 1..Len(ret.json) |-> ret.json[i].view_count]

Descending(v) == \A i \in 1..(Len(v) - 1) : v[i] >= v[i + 1]

FetchFailed == resp.kind \in {"neterr", "notgzip", "badjson"}

ErrorOf(k) ==
    IF k = "neterr" THEN "Transport" ELSE IF k = "notgzip" THEN "Gzip" ELSE "Decode"

\* C1: after an error-free run the result has min(5, number of unanswered
\* items of all fetched pages) elements; best holds that many view counts.
C1_ResultLength == Returned => Len(ret.json) = Len(best)

\* C2: a merge leaves in the retained slice exactly the first 5 of the
\* candidates (retained slice plus the page's unanswered items) sorted by
\* view count descending, or all of them when there are fewer than 5.
C2_MergeKeepsFirstK == pc = "HasMore" => Views(top5) = want

\* C3: when the fetched pages hold at least 5 unanswered items, the view
\* counts of the result of an error-free run are the 5 largest among them,
\* in descending order.
C3_ResultIsTop5 == (Returned /\ Len(best) = K) => JsonViews = best

\* C4: the retained slice, and the result marshalled from it, are sorted by
\* view count in non-increasing order in every state.
C4_Sorted == Descending(Views(top5)) /\ Descending(JsonViews)

C4_Witness ==
    /\ Returned
    /\ fetches = 2
    /\ Len(ret.json) = K
    /\ ret.json[1].view_count > ret.json[K].view_count

\* C5: no item with is_answered = true is in the retained slice or in the
\* result, whatever pages were fetched.
C5_NoAnswered ==
    /\ \A i \in 1..Len(top5) : ~top5[i].IsAnswered
    /\ \A i \in 1..Len(ret.json) : ret.json[i].is_answered = "omitted"

C5_Witness ==
    /\ pc = "HasMore"
    /\ resp.Answered >= 1
    /\ resp.Fetched = MaxPageLen
    /\ Len(top5) = K
    /\ page = 2

\* C6: the retained slice never holds more than 5 items, and after a merge
\* it is within capacity and sorted.
C6_Capacity ==
    /\ Len(top5) <= K
    /\ Len(ret.json) <= K
    /\ pc = "HasMore" => (Len(top5) <= K /\ Descending(Views(top5)))

C6_Witness ==
    /\ pc = "HasMore"
    /\ resp.Fetched - resp.Answered > K
    /\ Len(top5) = K

\* C7: no fetch follows a page that reported has_more = false, and a run
\* that ends without error has fetched exactly the pages up to and including
\* the first one with has_more = false.
C7_FetchCount ==
    /\ \A i \in 1..Len(hasMoreLog) : ~hasMoreLog[i] => fetches = i
    /\ (pc = "Done" \/ (pc = "DoReturned" /\ err = "nil")) =>
          /\ fetches >= 1
          /\ fetches = Len(hasMoreLog)
          /\ ~hasMoreLog[fetches]
          /\ \A i \in 1..(fetches - 1) : hasMoreLog[i]

C7_Witness == pc = "Done" /\ fetches = 2 /\ hasMoreLog = <<TRUE, FALSE>>

\* the case of page 1 reporting has_more = false
C7_WitnessOnePage == pc = "Done" /\ fetches = 1 /\ hasMoreLog = <<FALSE>>

\* C8: when the fetch or the decode of page N fails, Do returns that error,
\* GetTop5Questions returns the error and no result, and nothing is acquired
\* or fetched after the failure.
C8_ErrorIsFatal ==
    /\ FetchFailed =>
          /\ err = ErrorOf(resp.kind)
          /\ pc \in {"DoReturned", "Failed"}
          /\ fetches = page
          /\ acquires = page
          /\ decodes = page - 1
    /\ pc = "Failed" => (ret.returned /\ ret.err = err /\ ret.isNil /\ ret.json = <<>>)
    /\ err /= "nil" => ret.isNil

C8_Witness ==
    /\ pc = "Failed"
    /\ FetchFailed
    /\ page = 2
    /\ Len(top5) = K

C10_StatusChecked ==
    (resp.kind \in {"notgzip", "badjson", "json"} /\ resp.status /= StatusOK) =>
        /\ err = "Transport"
        /\ decodes = page - 1

C12_AcquireBeforeFetch ==
    /\ fetches <= acquires
    /\ acquires <= fetches + 1
    /\ IF pc \in {"Request", "Fetch"}
       THEN acquires = fetches + 1 /\ acquires = page
       ELSE acquires = fetches

C12_Witness ==
    /\ pc = "HasMore"
    /\ page = 2
    /\ acquires = 2
    /\ fetches = 2

\* the page parameter of the request as params stands
PageOfRequest == Query(params)["page"]

\* C13: the page counter starts at 1 and the k-th request of a run carries
\* page k: pages are requested in the order 1, 2, 3, ... with none skipped
\* and none requested twice.
C13_PageSequence ==
    /\ fetches = 0 => page = 1
    /\ page \in {fetches, fetches + 1}
    /\ pc = "Fetch" => (page = fetches + 1 /\ PageOfRequest = <<Itoa(fetches + 1)>>)
    /\ (pc /= "Fetch" /\ fetches >= 1) => PageOfRequest = <<Itoa(fetches)>>

C13_Witness ==
    /\ pc = "Fetch"
    /\ fetches = Burst
    /\ PageOfRequest = <<"31">>

Terminal == pc \in {"Done", "Failed"}

\* a decoded page reported has_more = false, or a step returned an error
Stopping == (\E i \in 1..Len(hasMoreLog) : ~hasMoreLog[i]) \/ err /= "nil"

\* C14: while time passes and the run is scheduled, a page that reports
\* has_more = false or a step that returns an error leads to Done or Failed;
\* no step is taken from Done or Failed; and the run is never Done while the
\* last decoded page reported has_more = true.
C14_Terminates ==
    /\ Stopping ~> Terminal
    /\ [][~Terminal]_vars
    /\ [](pc = "Done" => (hasMoreLog /= <<>> /\ ~hasMoreLog[Len(hasMoreLog)]))

\* page 31, reached through the refill the 31st Wait needed, fails to decode
\* and the 31 activations have returned
C14_Witness ==
    /\ pc = "Failed"
    /\ err = "Decode"
    /\ fetches = Burst + 1
    /\ depth = 0

\* the query of every request but for its page
FixedQuery ==
    [order |-> <<"desc">>, sort |-> <<"activity">>, site |-> <<"stackoverflow">>,
     intitle |-> <<"git">>, tagged |-> <<"go">>, pagesize |-> <<"100">>,
     fromdate |-> <<"now-365d">>, todate |-> <<"now">>]

\* C15: every request of a run carries the same intitle, tagged, pagesize,
\* fromdate and todate, each once, and exactly one page parameter; two
\* requests differ in the value of page only.
C15_FixedParams ==
    (pc = "Fetch" \/ fetches >= 1) =>
        /\ DOMAIN Query(params) = DOMAIN FixedQuery \cup {"page"}
        /\ \A k \in DOMAIN FixedQuery : Query(params)[k] = FixedQuery[k]
        /\ Len(PageOfRequest) = 1

C15_Witness ==
    /\ pc = "Fetch"
    /\ fetches = 1
    /\ PageOfRequest = <<"2">>
    /\ Query(params)["pagesize"] = <<"100">>

\* C16: the pagination loop is iterative: the number of activations of Do
\* the run holds on the call stack is bounded by a constant, whatever the
\* number of pages (one activation, as a loop has).
C16_BoundedDepth == depth <= 1

\* the view counts the second run returned
OtherJsonViews == [i \in 1..Len(other.ret.json) |-> other.ret.json[i].view_count]

\* C17: two runs on one limiter, each with its own retained slice, page
\* counter and params: the successful Waits of both together never exceed
\* the 30 tokens the bucket started with plus those refilled, every token is
\* accounted for once, and each run returns what its own pages yield to a run
\* alone (on the pages of SpecShared, the five largest view counts of its own
\* unanswered items).
C17_SharedLimiter ==
    /\ tokens >= 0
    /\ acquires + other.acquires <= Burst + gained
    /\ acquires + other.acquires + tokens = Burst + gained
    /\ Returned => JsonViews = (IF unanswered > K THEN best ELSE <<>>)
    /\ (other.ret.returned /\ other.ret.err = "nil") =>
          OtherJsonViews = (IF other.unanswered > K THEN other.best ELSE <<>>)

\* both runs fetched 16 pages, on the 30 tokens of the bucket and two
\* refills, and returned different results
C17_Witness ==
    /\ pc = "Done"
    /\ other.pc = "Done"
    /\ acquires = SharedLastPage
    /\ other.acquires = SharedLastPage
    /\ gained = 2
    /\ tokens = 0
    /\ Len(JsonViews) = K
    /\ OtherJsonViews /= JsonViews

C19_OnlyImproves ==
    [][/\ Len(top5') >= Len(top5)
       /\ Len(top5) = K =>
             \A i \in 1..K : top5'[i].ViewCount >= top5[i].ViewCount]_vars

\* a page with one unanswered item has been merged into a full retained
\* slice of unequal view counts
C19_Witness ==
    /\ pc = "HasMore"
    /\ page = 2
    /\ resp.Fetched - resp.Answered = 1
    /\ Len(top5) = K
    /\ top5[1].ViewCount > top5[K].ViewCount

\* what the run returns when all unanswered items decoded so far arrive on
\* one page, in any order
OnePageViews == IF unanswered > K THEN best ELSE <<>>

\* C20: the view counts of the result depend only on the multiset of the
\* unanswered items of all pages, not on their split into pages nor on
\* their order: the run returns what the same items on one page yield.
C20_SplitIndependent == Returned => JsonViews = OnePageViews
====
